---- MODULE Spec2Model ----
(***************************************************************************)
(* window-fetch: the request execution pipeline of src/index.js and        *)
(* src/request.js.  One logical fetch is a chain of hops; hop k owns the   *)
(* Request built for it, its transport call, its timeout timer and the     *)
(* promise that fetch() returned for it.                                   *)
(***************************************************************************)
EXTENDS Integers, Sequences, FiniteSets, TLC

VARIABLES
  caller,     \* the arguments of the caller's fetch(url, opts)
  requests,   \* requests[k]: the Request of hop k (mutated in place on redirect)
  reqs,       \* reqs[k]: state of hop k's transport call (or file read)
  timers,     \* timers[k]: reqTimeout of hop k
  promises,   \* promises[k]: the promise fetch() returned for hop k
  sniffs,     \* sniffs[k]: the raw.once('data') listener of the deflate branch
  urls,       \* urls[k]: the url argument of the fetch() call of hop k
  clones      \* what the caller got from request.clone(), once it called it

vars == <<caller, requests, reqs, timers, promises, sniffs, urls, clones>>

----------------------------------------------------------------------------
(* Bounds of the model *)

\* largest value of the `follow` option the caller passes
MaxFollow == 2

\* the timeout in ms the caller passes when it passes one
TimeoutMs == 1

----------------------------------------------------------------------------
(* JavaScript values *)

\* null (and the result of Headers.get on an absent header)
Null == "null"

\* o.k is neither undefined nor another falsy value ('' for strings)
TruthyStr(o, k) == k \in DOMAIN o /\ o[k] # ""

\* o.k is a method string that is not ''
TruthySeq(o, k) == k \in DOMAIN o /\ o[k] # <<>>

\* o.k is a number that is neither undefined nor 0
TruthyNum(o, k) == k \in DOMAIN o /\ o[k] # 0

\* o.k !== undefined
Defined(o, k) == k \in DOMAIN o

\* o.k != null  (neither null nor undefined)
NotNullish(o, k) == k \in DOMAIN o /\ o[k] # Null

\* method names are strings, kept as sequences of characters
GET == <<"G", "E", "T">>
HEAD == <<"H", "E", "A", "D">>
POST == <<"P", "O", "S", "T">>
PUT == <<"P", "U", "T">>
get == <<"g", "e", "t">>

Lower == <<"a", "d", "e", "g", "h", "o", "p", "s", "t", "u">>
Upper == <<"A", "D", "E", "G", "H", "O", "P", "S", "T", "U">>

\* String.prototype.toUpperCase on one character
UpperChar(c) ==
  IF \E i \in DOMAIN Lower : Lower[i] = c
    THEN Upper[CHOOSE i \in DOMAIN Lower : Lower[i] = c]
    ELSE c

\* String.prototype.toUpperCase
toUpperCase(s) == [i \in DOMAIN s |-> UpperChar(s[i])]

\* x & 0x0F, bit by bit
RECURSIVE BitAnd(_, _, _)
BitAnd(x, y, bits) ==
  IF bits = 0 THEN 0
  ELSE (IF x % 2 = 1 /\ y % 2 = 1 THEN 1 ELSE 0)
       + 2 * BitAnd(x \div 2, y \div 2, bits - 1)

----------------------------------------------------------------------------
(* URLs: url.parse / url.format / url.resolve *)

Url(protocol, hostname, path) ==
  [protocol |-> protocol, hostname |-> hostname, path |-> path]

\* the URL strings of the model and what url.parse makes of each
UrlTable ==
  {<<"http://a/x", Url("http:", "a", "/x")>>,
   <<"http://a/r", Url("http:", "a", "/r")>>,
   <<"https://b/y", Url("https:", "b", "/y")>>,
   <<"https://b/r", Url("https:", "b", "/r")>>,
   <<"/r", Url("", "", "/r")>>,
   <<"ftp://c/z", Url("ftp:", "c", "/z")>>,
   <<"file:///etc/passwd", Url("file:", "", "/etc/passwd")>>,
   <<"data:text/plain;base64,SGVsbG8=", Url("data:", "", "text/plain;base64,SGVsbG8=")>>}

parse_url(s) == (CHOOSE e \in UrlTable : e[1] = s)[2]

format_url(u) == (CHOOSE e \in UrlTable : e[2] = u)[1]

\* url.resolve(from, to): an absolute `to` wins, a path-absolute `to` keeps
\* the scheme and host of `from`
resolve_url(from, to) ==
  LET f == parse_url(from)
      t == parse_url(to)
  IN IF t.protocol # "" THEN to
     ELSE format_url([f EXCEPT !.path = t.path])

\* url.match(/^file:\/\/(.*)$/)
MatchesFile(url) == parse_url(url).protocol = "file:"

\* url.match(/^data:(.+?)(;base64)?,/)
MatchesData(url) == parse_url(url).protocol = "data:"

----------------------------------------------------------------------------
(* Headers collaborator: names are stored lower-cased *)

HHas(h, name) == \E p \in h : p[1] = name

HGet(h, name) ==
  IF HHas(h, name) THEN (CHOOSE p \in h : p[1] = name)[2] ELSE Null

HDelete(h, name) == {p \in h : p[1] # name}

HSet(h, name, value) == HDelete(h, name) \cup {<<name, value>>}

HAppend(h, name, value) == h \cup {<<name, value>>}

----------------------------------------------------------------------------
(* Body collaborator *)

\* extractContentType(instance): the type a string body declares
extractContentType(body) == "text/plain;charset=UTF-8"

\* getTotalBytes(instance): the byte size of a buffered body
getTotalBytes(body) == Len(body)

\* String(n) for the sizes of the model's bodies
Digits == <<"0", "1", "2", "3", "4", "5", "6", "7", "8", "9">>

String(n) == Digits[n + 1]

----------------------------------------------------------------------------
(* new Request(input, init) *)

TypeError(message) == [type |-> "TypeError", message |-> message]

\* `input = {}`: what a non-Request input is replaced by
EmptyObject == [type |-> "Object"]

\* the `follow` a Request gets when neither init nor input names one
DefaultFollow == 20

Request(input, init) ==
  LET isRequest == input.type = "Request"
      parsedURL == IF ~isRequest THEN parse_url(input.href)
                   ELSE parse_url(format_url(input.parsedURL))
      inp == IF isRequest THEN input ELSE EmptyObject
      method == IF TruthySeq(init, "method") THEN init.method
                ELSE IF TruthySeq(inp, "method") THEN inp.method
                ELSE GET
      inputBody == IF NotNullish(init, "body") THEN init.body
                   ELSE IF isRequest /\ input.body # Null THEN input.body
                   ELSE Null
      headers0 == IF Defined(init, "headers") THEN init.headers
                  ELSE IF Defined(inp, "headers") THEN inp.headers
                  ELSE {}
      headers == IF NotNullish(init, "body")
                    /\ ~HHas(headers0, "content-type")
                   THEN HAppend(headers0, "content-type",
                                extractContentType(inputBody))
                   ELSE headers0
  IN IF (NotNullish(init, "body") \/ (isRequest /\ input.body # Null))
        /\ (method = GET \/ method = HEAD)
       THEN TypeError("Request with GET/HEAD method cannot have body")
       ELSE [type |-> "Request",
             parsedURL |-> parsedURL,
             body |-> inputBody,
             timeout |-> IF TruthyNum(init, "timeout") THEN init.timeout
                         ELSE IF TruthyNum(inp, "timeout") THEN inp.timeout
                         ELSE 0,
             size |-> IF TruthyNum(init, "size") THEN init.size
                      ELSE IF TruthyNum(inp, "size") THEN inp.size
                      ELSE 0,
             method |-> toUpperCase(method),
             redirect |-> IF TruthyStr(init, "redirect") THEN init.redirect
                          ELSE IF TruthyStr(inp, "redirect") THEN inp.redirect
                          ELSE "follow",
             headers |-> headers,
             follow |-> IF Defined(init, "follow") THEN init.follow
                        ELSE IF Defined(inp, "follow") THEN inp.follow
                        ELSE DefaultFollow,
             compress |-> IF Defined(init, "compress") THEN init.compress
                          ELSE IF Defined(inp, "compress") THEN inp.compress
                          ELSE TRUE,
             counter |-> IF TruthyNum(init, "counter") THEN init.counter
                         ELSE IF TruthyNum(inp, "counter") THEN inp.counter
                         ELSE 0,
             agent |-> IF TruthyStr(init, "agent") THEN init.agent
                       ELSE IF TruthyStr(inp, "agent") THEN inp.agent
                       ELSE ""]

\* the `url` getter of a Request
RequestUrl(request) == format_url(request.parsedURL)

\* Request.prototype.clone: new Request(this), with init = {}
clone(request) == Request(request, <<>>)

\* mutant: the constructor keeps the Headers object it was given
Shares_Headers(held) == held \cap {"headers"}

\* object identity: of the objects `held` by the arguments of
\* new Request(input, init) - "request" for a Request instance, "headers"
\* for its or the options' Headers - the ones the new Request is or holds.
\* The constructor fills a new object, and `new Headers(...)` copies the
\* entries into a new Headers, so none
Shares(held) == {}

----------------------------------------------------------------------------
(* getNodeRequestOptions(request) *)

getNodeRequestOptions(request) ==
  LET parsedURL == request.parsedURL
      h0 == request.headers
      h1 == IF ~HHas(h0, "accept") THEN HSet(h0, "accept", "*/*") ELSE h0
      contentLengthValue ==
        IF request.body # Null
          THEN String(getTotalBytes(request.body))
          ELSE IF toUpperCase(request.method) \in {POST, PUT} THEN "0"
          ELSE Null
      h2 == IF contentLengthValue # Null
              THEN HSet(h1, "content-length", contentLengthValue)
              ELSE h1
      h3 == IF ~HHas(h2, "user-agent")
              THEN HSet(h2, "user-agent", "node-fetch/1.0")
              ELSE h2
      h4 == IF request.compress
              THEN HSet(h3, "accept-encoding", "gzip,deflate")
              ELSE h3
      h5 == IF ~HHas(h4, "connection") /\ request.agent = ""
              THEN HSet(h4, "connection", "close")
              ELSE h4
  IN IF parsedURL.protocol = "" \/ parsedURL.hostname = ""
       THEN TypeError("Only absolute URLs are supported")
     ELSE IF parsedURL.protocol \notin {"http:", "https:"}
       THEN TypeError("Only HTTP(S) protocols are supported")
     ELSE [type |-> "options",
           protocol |-> parsedURL.protocol,
           hostname |-> parsedURL.hostname,
           path |-> parsedURL.path,
           method |-> request.method,
           headers |-> h5,
           agent |-> request.agent]

----------------------------------------------------------------------------
(* Promises and responses *)

Pending == [state |-> "pending"]

\* resolve(p) with p the promise of the next hop: this promise follows it
Locked == [state |-> "locked"]

Fulfilled(response) == [state |-> "fulfilled", response |-> response]

Rejected(kind) == [state |-> "rejected", kind |-> kind]

\* resolve(...) or reject(...) on a promise: only a pending promise changes
Settle(promise, outcome) ==
  IF promise.state = "pending" THEN outcome ELSE promise

\* new Response(body, response_options) of the network path: the body is
\* res piped through `decoder`
Response(request, res, headers, decoder) ==
  [type |-> "Response",
   url |-> RequestUrl(request),
   status |-> res.statusCode,
   headers |-> headers,
   body |-> "res",
   decoder |-> decoder,
   size |-> request.size,
   timeout |-> request.timeout]

\* new Response(new Blob([data])) of the file:// path
FileResponse(url) ==
  [type |-> "Response", url |-> "", status |-> 200, headers |-> {},
   body |-> parse_url(url).path, decoder |-> "Blob", size |-> 0,
   timeout |-> 0]

\* new Buffer(dataString, 'base64')
Base64Decode(s) == IF s = "SGVsbG8=" THEN "Hello" ELSE ""

\* new Response(body, responseOptions) of the data: path, for the data URL
\* of the model: /^data:(.+?)(;base64)?,/ captures text/plain and ;base64
DataResponse(url) ==
  [type |-> "Response", url |-> url, status |-> 200,
   headers |-> {<<"content-type", "text/plain">>},
   body |-> Base64Decode("SGVsbG8="), decoder |-> "Blob",
   size |-> Len(Base64Decode("SGVsbG8=")), timeout |-> 0]

\* mutant: 308 is not taken for a redirect status
isRedirect_No308(code) == code \in {301, 302, 303, 307}

\* fetch.isRedirect(code)
isRedirect(code) == code \in {301, 302, 303, 307, 308}

NoRequest == [type |-> "none"]

\* fetch(url, opts) up to the return of its promise: the hop it starts
Fetch(url, opts) ==
  IF url.type = "string" /\ MatchesFile(url.href)
    THEN [request |-> NoRequest, req |-> "reading", promise |-> Pending]
  ELSE IF url.type = "string" /\ MatchesData(url.href)
    THEN [request |-> NoRequest, req |-> "none",
          promise |-> Fulfilled(DataResponse(url.href))]
  ELSE LET request == Request(url, opts) IN
    IF request.type = "TypeError"
      THEN [request |-> NoRequest, req |-> "none",
            promise |-> Rejected("invalid-input")]
    ELSE IF getNodeRequestOptions(request).type = "TypeError"
      THEN [request |-> request, req |-> "none",
            promise |-> Rejected("invalid-input")]
    ELSE [request |-> request, req |-> "issued", promise |-> Pending]

----------------------------------------------------------------------------
(* The caller's inputs and the transport's answers *)

String_(href) == [type |-> "string", href |-> href]

Methods == {get, HEAD, POST, PUT}

Bodies == {"hi"}

RedirectModes == {"follow", "error", "manual"}

\* the options records a caller passes with an http(s) URL
MethodOpts == {<<>>} \cup {[method |-> m] : m \in Methods}

BodyOpts == {<<>>} \cup {[body |-> b] : b \in Bodies}

\* `follow` matters in mode follow; the other modes get its extremes
ModeOpts ==
  {[redirect |-> "follow", follow |-> f] : f \in 0..MaxFollow}
  \cup {[redirect |-> r, follow |-> f] :
          r \in {"error", "manual"}, f \in {0, MaxFollow}}

CompressOpts == {<<>>, [compress |-> FALSE]}

TimeoutOpts == {<<>>, [timeout |-> TimeoutMs]}

Opts ==
  {m @@ b @@ r @@ c @@ t :
     m \in MethodOpts, b \in BodyOpts, r \in ModeOpts, c \in CompressOpts,
     t \in TimeoutOpts}

\* a Request the caller built before, passed to fetch in place of a URL
PriorRequest ==
  Request(String_("http://a/x"),
          [method |-> POST, body |-> "hi", follow |-> MaxFollow,
           headers |-> {<<"content-length", "2">>, <<"x-token", "t">>},
           agent |-> "keepAliveAgent", size |-> 1, timeout |-> TimeoutMs])

\* the same after the caller's request.headers.delete('Content-Type')
BarePriorRequest ==
  [PriorRequest EXCEPT !.headers = HDelete(@, "content-type")]

\* an options record with headers of the caller's own
HeaderOpts ==
  [method |-> POST, body |-> "hi", follow |-> MaxFollow,
   headers |-> {<<"content-length", "2">>, <<"x-token", "t">>}]

Calls ==
  {[url |-> String_("http://a/x"), opts |-> o] : o \in Opts}
  \cup {[url |-> String_(u), opts |-> <<>>] :
          u \in {"file:///etc/passwd", "data:text/plain;base64,SGVsbG8=",
                 "ftp://c/z", "/r"}}
  \cup {[url |-> PriorRequest, opts |-> o] :
          o \in {<<>>} \cup {[method |-> m] : m \in {GET, get, HEAD, PUT}}}
  \cup {[url |-> String_("http://a/x"),
          opts |-> [redirect |-> "follow", follow |-> f, counter |-> c]] :
          f \in 0..MaxFollow, c \in 1..(MaxFollow + 1)}
  \cup {[url |-> BarePriorRequest, opts |-> <<>>],
        [url |-> String_("http://a/x"), opts |-> HeaderOpts]}

RedirectStatuses == {301, 302, 303, 307, 308}

OtherStatuses == {200, 204, 304}

Locations == {"/r", "file:///etc/passwd",
              "data:text/plain;base64,SGVsbG8=", "ftp://c/z"}

Encodings == {"gzip", "x-gzip", "deflate", "x-deflate", "GZIP"}

Header(name, values) == {{}} \cup {{<<name, v>>} : v \in values}

\* the res objects the transport may hand to the response listener: a
\* redirect status with any Location, another status with any
\* Content-Encoding
Responses ==
  {[statusCode |-> s, headers |-> l \cup e] :
     s \in RedirectStatuses,
     l \in Header("location", Locations),
     e \in Header("content-encoding", {"gzip", "deflate"})}
  \cup
  {[statusCode |-> s, headers |-> l \cup e] :
     s \in OtherStatuses,
     l \in Header("location", {"/r"}),
     e \in Header("content-encoding", Encodings)}

\* the first byte of the first data chunk: every low nibble, under the high
\* nibbles of 0x0_, 0x4_ (0x4b), 0x7_ (0x78) and 0x8_
Bytes == {16 * h + l : h \in {0, 4, 7, 8}, l \in 0..15}

----------------------------------------------------------------------------
(* Initial state: fetch(url, opts) has returned its promise *)

Init ==
  \E c \in Calls :
    LET hop == Fetch(c.url, c.opts) IN
      /\ caller = c
      /\ urls = <<c.url>>
      /\ requests = <<hop.request>>
      /\ reqs = <<hop.req>>
      /\ timers = <<"unset">>
      /\ promises = <<hop.promise>>
      /\ sniffs = <<[state |-> "none"]>>
      /\ clones = <<>>

Hops == DOMAIN requests

\* mutant: the listeners leave the timer as it is
clearTimeout_Noop(timer) == timer

\* clearTimeout(reqTimeout)
clearTimeout(timer) == IF timer = "armed" THEN "cleared" ELSE timer

----------------------------------------------------------------------------
(* The listeners of one hop *)

\* req.once('socket', ...): the socket is assigned; the timer is armed when
\* the request has a timeout
Socket(k) ==
  /\ reqs[k] = "issued"
  /\ reqs' = [reqs EXCEPT ![k] = "socket"]
  /\ timers' = [timers EXCEPT ![k] =
                  IF requests[k].timeout # 0 THEN "armed" ELSE @]
  /\ UNCHANGED <<caller, requests, promises, sniffs, urls, clones>>

\* what the timer callback rejects with
TimeoutKind == "request-timeout"

\* mutant: the timer callback aborts and leaves the rejection to the error
\* listener
Timeout_AbortOnly(k) ==
  /\ timers[k] = "armed"
  /\ timers' = [timers EXCEPT ![k] = "fired"]
  /\ reqs' = [reqs EXCEPT ![k] = "aborted"]
  /\ UNCHANGED <<caller, requests, promises, sniffs, urls, clones>>

\* the setTimeout callback: req.abort() and reject
Timeout(k) ==
  /\ timers[k] = "armed"
  /\ timers' = [timers EXCEPT ![k] = "fired"]
  /\ reqs' = [reqs EXCEPT ![k] = "aborted"]
  /\ promises' = [promises EXCEPT ![k] = Settle(@, Rejected(TimeoutKind))]
  /\ UNCHANGED <<caller, requests, sniffs, urls, clones>>

\* req.on('error', ...): the transport fails before or after the socket,
\* while the response body is still arriving, or because of the abort
Error(k) ==
  /\ reqs[k] \in {"issued", "socket", "response", "aborted"}
  /\ reqs' = [reqs EXCEPT ![k] = "failed"]
  /\ timers' = [timers EXCEPT ![k] = clearTimeout(@)]
  /\ promises' = [promises EXCEPT ![k] = Settle(@, Rejected("system"))]
  /\ UNCHANGED <<caller, requests, sniffs, urls, clones>>

\* mutant: a 303 rewrites only a POST
UsesGet_PostOnly(statusCode, method) ==
  (statusCode = 303 \/ statusCode = 301 \/ statusCode = 302) /\ method = POST

\* mutant: a 301 or 302 rewrites every method
UsesGet_AnyMethod(statusCode, method) ==
  statusCode = 303 \/ statusCode = 301 \/ statusCode = 302

\* the redirect statuses after which the request is rewritten to a GET
\* without body
UsesGet(statusCode, method) ==
  \/ statusCode = 303
  \/ (statusCode = 301 \/ statusCode = 302) /\ method = POST

\* mutant: the headers are left as they are
Downgraded_KeepsHeaders(request, statusCode) ==
  IF UsesGet(statusCode, request.method)
    THEN [request EXCEPT !.method = GET, !.body = Null]
    ELSE request

\* request.method = 'GET'; request.body = null;
\* request.headers.delete('content-length') when the status asks for it
Downgraded(request, statusCode) ==
  IF UsesGet(statusCode, request.method)
    THEN [request EXCEPT !.method = GET,
                         !.body = Null,
                         !.headers = HDelete(@, "content-length")]
    ELSE request

\* mutant: the counter is incremented twice
Rewritten_ByTwo(request, statusCode) ==
  [Downgraded(request, statusCode) EXCEPT !.counter = @ + 2]

\* mutant: the counter is not incremented
Rewritten_NoCount(request, statusCode) == Downgraded(request, statusCode)

\* the redirect branch's in-place changes of the request before it recurses
Rewritten(request, statusCode) ==
  [Downgraded(request, statusCode) EXCEPT !.counter = @ + 1]

\* mutant: the Location header is passed on as received
ResponseHeaders_Raw(request, res) == res.headers

\* the Headers built from res.headers; in manual mode a Location header is
\* made absolute
ResponseHeaders(request, res) ==
  IF request.redirect = "manual" /\ HHas(res.headers, "location")
    THEN HSet(res.headers, "location",
              resolve_url(RequestUrl(request), HGet(res.headers, "location")))
    ELSE res.headers

\* mutant: a HEAD request's response is decoded like any other
IgnoresCodings_NoHead(request, statusCode, codings) ==
  \/ ~request.compress
  \/ codings = Null
  \/ statusCode = 204
  \/ statusCode = 304

\* the cases in which compression support is ignored
IgnoresCodings(request, statusCode, codings) ==
  \/ ~request.compress
  \/ request.method = HEAD
  \/ codings = Null
  \/ statusCode = 204
  \/ statusCode = 304

\* the transform the response body is piped through: "PassThrough" (as-is),
\* "Gunzip", or "sniff" when the first data chunk decides
Decoder(request, statusCode, codings) ==
  IF IgnoresCodings(request, statusCode, codings) THEN "PassThrough"
  ELSE IF codings = "gzip" \/ codings = "x-gzip" THEN "Gunzip"
  ELSE IF codings = "deflate" \/ codings = "x-deflate" THEN "sniff"
  ELSE "PassThrough"

\* mutant: only the usual zlib header byte 0x78 selects the zlib inflater
Inflater_Only78(chunk0) ==
  IF chunk0 = 120 THEN "Inflate" ELSE "InflateRaw"

\* the decoder the first data chunk selects
Inflater(chunk0) ==
  IF BitAnd(chunk0, 15, 8) = 8 THEN "Inflate" ELSE "InflateRaw"

\* what the response listener does when it neither follows nor fails:
\* resolve at once, or wait for the first data chunk
Terminal(k, res) ==
  LET request == requests[k]
      headers == ResponseHeaders(request, res)
      decoder == Decoder(request, res.statusCode,
                         HGet(headers, "content-encoding"))
  IN /\ requests' = requests
     /\ urls' = urls
     /\ caller' = caller
     /\ reqs' = [reqs EXCEPT ![k] = "response"]
     /\ IF decoder = "sniff"
          THEN /\ sniffs' = [sniffs EXCEPT ![k] =
                     [state |-> "waiting",
                      response |-> Response(request, res, headers, decoder)]]
               /\ promises' = promises
          ELSE /\ sniffs' = sniffs
               /\ promises' = [promises EXCEPT ![k] =
                     Settle(@, Fulfilled(
                       Response(request, res, headers, decoder)))]

\* mutant: one redirect more than `follow` is followed
MaxReached_OffByOne(request) == request.counter > request.follow

\* request.counter >= request.follow
MaxReached(request) == request.counter >= request.follow

\* reject(new FetchError(..., kind)); return
Fail(k, kind) ==
  /\ promises' = [promises EXCEPT ![k] = Settle(@, Rejected(kind))]
  /\ reqs' = [reqs EXCEPT ![k] = "response"]
  /\ UNCHANGED <<caller, requests, sniffs, urls>>

\* the caller's objects that the arguments of its fetch(url, opts) are or
\* hold: a Request instance with its Headers, the Headers of the options
CallerObjects ==
  (IF caller.url.type = "Request" THEN {"request", "headers"} ELSE {})
  \cup (IF Defined(caller.opts, "headers") THEN {"headers"} ELSE {})

\* the caller's objects that the Request of hop k is or holds: hop 1 is
\* built from the caller's arguments, hop k + 1 from the Request of hop k
RECURSIVE SharedAt(_)
SharedAt(k) ==
  IF k = 1 THEN Shares(CallerObjects) ELSE Shares(SharedAt(k - 1))

\* the caller's arguments after the redirect branch changed the Request of
\* hop k in place: a change shows in the objects that Request shares
WrittenThrough(k, statusCode) ==
  LET shared == SharedAt(k) IN
    IF "request" \in shared
      THEN [caller EXCEPT !.url = Rewritten(@, statusCode)]
    ELSE IF "headers" \in shared /\ UsesGet(statusCode, requests[k].method)
      THEN IF Defined(caller.opts, "headers")
             THEN [caller EXCEPT !.opts.headers = HDelete(@, "content-length")]
             ELSE [caller EXCEPT !.url.headers = HDelete(@, "content-length")]
    ELSE caller

\* mutant: the redirected call goes on waiting for a response
Follow_StaysOpen(k, res) ==
  LET request == Rewritten(requests[k], res.statusCode)
      url == String_(resolve_url(RequestUrl(request),
                                 HGet(res.headers, "location")))
      hop == Fetch(url, request)
  IN /\ requests' = Append([requests EXCEPT ![k] = request], hop.request)
     /\ urls' = Append(urls, url)
     /\ reqs' = Append(reqs, hop.req)
     /\ promises' = Append([promises EXCEPT ![k] = Settle(@, Locked)],
                           hop.promise)
     /\ sniffs' = Append(sniffs, [state |-> "none"])
     /\ caller' = WrittenThrough(k, res.statusCode)

\* resolve(fetch(resolve_url(request.url, res.headers.location), request))
Follow(k, res) ==
  LET request == Rewritten(requests[k], res.statusCode)
      url == String_(resolve_url(RequestUrl(request),
                                 HGet(res.headers, "location")))
      hop == Fetch(url, request)
  IN /\ requests' = Append([requests EXCEPT ![k] = request], hop.request)
     /\ urls' = Append(urls, url)
     /\ reqs' = Append([reqs EXCEPT ![k] = "response"], hop.req)
     /\ promises' = Append([promises EXCEPT ![k] = Settle(@, Locked)],
                           hop.promise)
     /\ sniffs' = Append(sniffs, [state |-> "none"])
     /\ caller' = WrittenThrough(k, res.statusCode)

\* mutant: the Location header is looked for before the counter is compared
OnResponse_LocationFirst(k, res) ==
  /\ reqs[k] = "socket"
  /\ clones' = clones
  /\ LET request == requests[k] IN
       IF isRedirect(res.statusCode) /\ request.redirect # "manual"
         THEN /\ IF request.redirect = "error"
                   THEN Fail(k, "no-redirect")
                 ELSE IF HGet(res.headers, "location") = Null
                   THEN Fail(k, "invalid-redirect")
                 ELSE IF MaxReached(request)
                   THEN Fail(k, "max-redirect")
                 ELSE Follow(k, res)
              /\ timers' =
                   IF Len(requests') > Len(requests)
                     THEN Append([timers EXCEPT ![k] = clearTimeout(@)],
                                 "unset")
                     ELSE [timers EXCEPT ![k] = clearTimeout(@)]
         ELSE /\ Terminal(k, res)
              /\ timers' = [timers EXCEPT ![k] = clearTimeout(@)]

\* req.on('response', ...)
OnResponse(k, res) ==
  /\ reqs[k] = "socket"
  /\ clones' = clones
  /\ LET request == requests[k] IN
       IF isRedirect(res.statusCode) /\ request.redirect # "manual"
         THEN /\ IF request.redirect = "error"
                   THEN Fail(k, "no-redirect")
                 ELSE IF MaxReached(request)
                   THEN Fail(k, "max-redirect")
                 ELSE IF HGet(res.headers, "location") = Null
                   THEN Fail(k, "invalid-redirect")
                 ELSE Follow(k, res)
              /\ timers' =
                   IF Len(requests') > Len(requests)
                     THEN Append([timers EXCEPT ![k] = clearTimeout(@)],
                                 "unset")
                     ELSE [timers EXCEPT ![k] = clearTimeout(@)]
         ELSE /\ Terminal(k, res)
              /\ timers' = [timers EXCEPT ![k] = clearTimeout(@)]

\* raw.once('data', chunk => ...): the first data chunk of a deflate body
Data(k, chunk0) ==
  /\ sniffs[k].state = "waiting"
  /\ reqs[k] = "response"
  /\ sniffs' = [sniffs EXCEPT ![k] = [state |-> "done"]]
  /\ promises' = [promises EXCEPT ![k] =
        Settle(@, Fulfilled([sniffs[k].response EXCEPT
                               !.decoder = Inflater(chunk0)]))]
  /\ UNCHANGED <<caller, requests, reqs, timers, urls, clones>>

\* the deflate body ends without a data chunk: the listener never runs
End(k) ==
  /\ sniffs[k].state = "waiting"
  /\ reqs[k] = "response"
  /\ sniffs' = [sniffs EXCEPT ![k] = [state |-> "ended"]]
  /\ UNCHANGED <<caller, requests, reqs, timers, promises, urls, clones>>

\* the fs.readFile callback of the file:// path
ReadFile(k, err) ==
  /\ reqs[k] = "reading"
  /\ reqs' = [reqs EXCEPT ![k] = "read"]
  /\ promises' = [promises EXCEPT ![k] =
        IF ~err THEN Settle(@, Fulfilled(FileResponse(urls[k].href)))
        ELSE Settle(@, Rejected("ENOENT"))]
  /\ UNCHANGED <<caller, requests, timers, sniffs, urls, clones>>

Next ==
  \/ \E k \in Hops : Socket(k)
  \/ \E k \in Hops : Timeout(k)
  \/ \E k \in Hops : Error(k)
  \/ \E k \in Hops : \E res \in Responses : OnResponse(k, res)
  \/ \E k \in Hops : \E chunk0 \in Bytes : Data(k, chunk0)
  \/ \E k \in Hops : End(k)
  \/ \E k \in Hops : \E err \in BOOLEAN : ReadFile(k, err)

Spec == Init /\ [][Next]_vars

----------------------------------------------------------------------------
(* The caller clones the Request of a fetch and changes the clone *)

\* request.clone() by the caller
Clone(k) ==
  /\ clones = <<>>
  /\ requests[k].type = "Request"
  /\ clones' = <<[of |-> k, original |-> requests[k],
                  request |-> clone(requests[k])]>>
  /\ UNCHANGED <<caller, requests, reqs, timers, promises, sniffs, urls>>

\* clone.headers.set('x-clone', '1') by the caller: the original's Headers
\* change with it when they are the same object
CloneHeadersSet ==
  /\ clones # <<>>
  /\ clones[1].request.type = "Request"
  /\ ~HHas(clones[1].request.headers, "x-clone")
  /\ clones' = <<[clones[1] EXCEPT
                    !.request.headers = HSet(@, "x-clone", "1")]>>
  /\ requests' =
       IF "headers" \in Shares({"headers"})
         THEN [requests EXCEPT ![clones[1].of].headers =
                                 HSet(@, "x-clone", "1")]
         ELSE requests
  /\ UNCHANGED <<caller, reqs, timers, promises, sniffs, urls>>

CloneNext ==
  \/ \E k \in Hops : Clone(k)
  \/ CloneHeadersSet

CloneSpec == Init /\ [][CloneNext]_vars

----------------------------------------------------------------------------
(* What the caller observes *)

\* the promise the caller holds follows the promises it was resolved with
RECURSIVE Final(_)
Final(k) ==
  IF promises[k].state = "locked" /\ k < Len(promises)
    THEN Final(k + 1)
    ELSE promises[k]

Outcome == Final(1)

\* the hops that reached the transport (http.request / https.request)
TransportCalls ==
  Cardinality({k \in Hops : reqs[k] \notin {"none", "reading", "read"}})

Last == Len(requests)

\* the counter the caller's arguments give the first Request
InitialCounter ==
  IF TruthyNum(caller.opts, "counter") THEN caller.opts.counter
  ELSE IF caller.url.type = "Request" THEN caller.url.counter
  ELSE 0

\* the fetch was started with counter 0
StartedAtZero == InitialCounter = 0

\* a step appends a hop; the Request of that hop, when one was built
Followed == Len(requests') = Len(requests) + 1

NextRequest == requests'[Len(requests')]

\* the step runs the response listener of hop k
Responds(k) == reqs[k] = "socket" /\ reqs'[k] = "response"

WithStatus(codes) == {res \in Responses : res.statusCode \in codes}

WithLocation(codes) ==
  {res \in WithStatus(codes) : HHas(res.headers, "location")}

----------------------------------------------------------------------------
(* Claims *)

\* C1: every Request the constructor returns has a null body whenever its
\* upper-cased method is GET or HEAD; supplying a body (directly or by
\* inheritance) with such a method, in any letter casing, fails instead.
C1_GetHeadHasNoBody ==
  \A k \in Hops :
    requests[k].type = "Request" /\ requests[k].method \in {GET, HEAD}
      => requests[k].body = Null

\* C2: in mode follow, a 303 response with a Location header at
\* counter < follow is followed, and the Request of the next hop has method
\* GET and a null body, whatever the method and body of the redirected hop.
C2_SeeOtherUsesGet ==
  [][\A k \in Hops :
       (/\ Responds(k)
        /\ requests[k].redirect = "follow"
        /\ requests[k].counter < requests[k].follow)
       => \A res \in WithLocation({303}) :
            OnResponse(k, res)
              => /\ Followed
                 /\ NextRequest.type = "Request"
                      => NextRequest.method = GET /\ NextRequest.body = Null]_vars

\* C2 witness: a PUT with a body was redirected and the second hop is a GET
\* without body (only a 303 rewrites a PUT).
C2_Witness ==
  /\ Len(requests) >= 2
  /\ caller.url.type = "string"
  /\ TruthySeq(caller.opts, "method") /\ caller.opts.method = PUT
  /\ NotNullish(caller.opts, "body")
  /\ requests[2].type = "Request"
  /\ requests[2].method = GET
  /\ requests[2].body = Null

\* C3: in mode follow, a followed 301 or 302 of a POST gives a next hop with
\* method GET and a null body; a followed 301 or 302 of another method, and
\* every followed 307 or 308, gives a next hop with the method and the body
\* of the redirected hop.
C3_MovedKeepsOrDowngrades ==
  [][\A k \in Hops :
       (/\ Followed
        /\ Responds(k)
        /\ NextRequest.type = "Request")
       => \A res \in WithLocation({301, 302, 307, 308}) :
            OnResponse(k, res)
              => IF res.statusCode \in {301, 302} /\ requests[k].method = POST
                   THEN NextRequest.method = GET /\ NextRequest.body = Null
                   ELSE /\ NextRequest.method = requests[k].method
                        /\ NextRequest.body = requests[k].body]_vars

\* C3 witness: a PUT with a body was redirected and the second hop is still
\* a PUT with that body.
C3_Witness ==
  /\ Len(requests) >= 2
  /\ caller.url.type = "string"
  /\ TruthySeq(caller.opts, "method") /\ caller.opts.method = PUT
  /\ NotNullish(caller.opts, "body")
  /\ requests[2].type = "Request"
  /\ requests[2].method = PUT
  /\ requests[2].body = caller.opts.body

\* C4: started with counter 0 and follow = N, the Request of the current hop
\* has counter = the number of redirects followed so far; a redirect response
\* with a Location is followed while fewer than N were, and the (N+1)-th
\* makes the fetch fail with max-redirect at a hop whose counter is N.
C4_CounterCountsHops ==
  /\ [](StartedAtZero =>
          /\ requests[Last].type = "Request"
               => requests[Last].counter = Last - 1
          /\ \A k \in Hops :
               promises[k] = Rejected("max-redirect")
                 => /\ k = Last
                    /\ requests[k].follow = k - 1
                    /\ requests[k].counter = k - 1)
  /\ [][\A k \in Hops :
          (/\ Responds(k)
           /\ StartedAtZero
           /\ requests[k].redirect = "follow")
          => \A res \in WithLocation(RedirectStatuses) :
               OnResponse(k, res)
                 => IF k - 1 < requests[k].follow
                      THEN /\ Followed
                           /\ NextRequest.type = "Request"
                                => NextRequest.counter = k
                      ELSE /\ ~Followed
                           /\ Outcome' = Rejected("max-redirect")]_vars

\* C4 witness: with follow = 2 the third hop was answered by a redirect and
\* the fetch failed with max-redirect.
C4_Witness ==
  /\ Last = 3
  /\ requests[3].type = "Request"
  /\ requests[3].follow = 2
  /\ requests[3].counter = 2
  /\ Outcome = Rejected("max-redirect")

\* C5: in mode error a response with a redirect status rejects with
\* no-redirect and issues no transport call, then or at any later time.
C5_ErrorModeNeverFollows ==
  /\ [](\A k \in Hops :
          promises[k] = Rejected("no-redirect")
            => k = Last /\ Outcome = Rejected("no-redirect"))
  /\ [][\A k \in Hops :
          (Responds(k) /\ requests[k].redirect = "error")
          => \A res \in WithStatus(RedirectStatuses) :
               OnResponse(k, res)
                 => /\ promises'[k] = Rejected("no-redirect")
                    /\ TransportCalls' = TransportCalls]_vars

\* C5 witness: the fetch failed with no-redirect after one transport call,
\* and the transport's later error event changed nothing.
C5_Witness ==
  /\ Outcome = Rejected("no-redirect")
  /\ TransportCalls = 1
  /\ reqs[1] = "failed"

\* C6: a fetch started with counter 0 issues at most follow + 1 transport
\* calls (and starts at most follow + 1 hops), also when every Location
\* names the same URL; the answer to the last of them ends the chain.
C6_AtMostFollowPlusOneCalls ==
  (StartedAtZero /\ requests[1].type = "Request")
    => /\ Len(requests) <= requests[1].follow + 1
       /\ TransportCalls <= requests[1].follow + 1
       /\ \A k \in Hops :
            (k = requests[1].follow + 1 /\ reqs[k] \in {"response", "failed"})
              => k = Last /\ promises[k].state # "locked"

\* C6 witness: with follow = 2, three transport calls were made, the last
\* two for the same URL, and the third was answered.
C6_Witness ==
  /\ requests[1].type = "Request"
  /\ requests[1].follow = 2
  /\ TransportCalls = 3
  /\ urls[2] = urls[3]
  /\ reqs[3] = "response"

\* C7: once the timer of a hop has fired, the transport call is aborted and
\* the fetch's outcome is request-timeout, in that state and in every later
\* one, whatever error event the transport emits afterwards.
C7_TimeoutStaysTimeout ==
  \A k \in Hops :
    timers[k] = "fired"
      => /\ requests[k].timeout > 0
         /\ reqs[k] \in {"aborted", "failed"}
         /\ promises[k] = Rejected("request-timeout")
         /\ Outcome = Rejected("request-timeout")

\* C7 witness: the timer of a redirected fetch's second hop fired and the
\* transport then emitted an error for the aborted call.
C7_Witness ==
  /\ Last = 2
  /\ timers[2] = "fired"
  /\ reqs[2] = "failed"

\* the network responses that exist: resolved with, or kept until the first
\* data chunk
Delivered(k) ==
  IF sniffs[k].state = "waiting" THEN {sniffs[k].response}
  ELSE IF promises[k].state = "fulfilled" /\ promises[k].response.body = "res"
    THEN {promises[k].response}
  ELSE {}

\* C8: a terminal response's body is left undecoded when compress is false,
\* the method is HEAD, Content-Encoding is absent or the status is 204 or
\* 304; otherwise exactly 'gzip' and 'x-gzip' select the gzip decoder,
\* exactly 'deflate' and 'x-deflate' a deflate decoder, and any other value
\* (such as 'GZIP') leaves the body undecoded.
C8_DecoderSelection ==
  \A k \in Hops : \A r \in Delivered(k) :
    LET codings == HGet(r.headers, "content-encoding")
        excluded == \/ requests[k].compress = FALSE
                    \/ requests[k].method = HEAD
                    \/ ~HHas(r.headers, "content-encoding")
                    \/ r.status \in {204, 304}
    IN /\ excluded => r.decoder = "PassThrough"
       /\ (~excluded /\ codings \in {"gzip", "x-gzip"})
            => r.decoder = "Gunzip"
       /\ (~excluded /\ codings \in {"deflate", "x-deflate"})
            => r.decoder \in {"sniff", "Inflate", "InflateRaw"}
       /\ (~excluded
           /\ codings \notin {"gzip", "x-gzip", "deflate", "x-deflate"})
            => r.decoder = "PassThrough"

\* C8 witness: a HEAD request got a response with Content-Encoding gzip and
\* the fetch resolved with the body undecoded.
C8_Witness ==
  \E k \in Hops :
    /\ requests[k].type = "Request"
    /\ requests[k].method = HEAD
    /\ requests[k].compress
    /\ promises[k].state = "fulfilled"
    /\ promises[k].response.status = 200
    /\ HGet(promises[k].response.headers, "content-encoding") = "gzip"
    /\ promises[k].response.decoder = "PassThrough"

\* C9: for a deflate or x-deflate response that is not excluded from
\* decoding, the first byte b of the first data chunk alone selects the
\* decoder: the zlib inflater iff b mod 16 = 8, the raw inflater otherwise;
\* the promise is not resolved before that chunk and is resolved with it.
C9_FirstByteSelectsInflater ==
  /\ [](\A k \in Hops :
          /\ sniffs[k].state \in {"waiting", "ended"}
               => promises[k].state # "fulfilled"
          /\ (promises[k].state = "fulfilled"
              /\ promises[k].response.decoder \in {"Inflate", "InflateRaw"})
               => sniffs[k].state = "done")
  /\ [][\A k \in Hops :
          (sniffs[k].state = "waiting" /\ sniffs'[k].state = "done")
          => \A b \in Bytes :
               \/ /\ promises'[k].state = "fulfilled"
                  /\ promises'[k].response.decoder =
                       IF b % 16 = 8 THEN "Inflate" ELSE "InflateRaw"
               \/ ~Data(k, b)]_vars

\* C9 witness: a deflate response was resolved with the raw inflater.
C9_Witness ==
  \E k \in Hops :
    /\ sniffs[k].state = "done"
    /\ promises[k].state = "fulfilled"
    /\ HGet(promises[k].response.headers, "content-encoding") = "deflate"
    /\ promises[k].response.decoder = "InflateRaw"

\* C10: in mode manual a response with a redirect status is terminal: no hop
\* is started, the Request is left as it is, no redirect error is raised
\* whatever counter, follow and Location are, and the response the fetch
\* resolves with (at once, or after the first data chunk of a deflate body)
\* carries that status and the Location resolved against the request URL.
C10_ManualRedirectIsTerminal ==
  /\ [](\A k \in Hops :
          (requests[k].type = "Request" /\ requests[k].redirect = "manual")
            => /\ Last = 1
               /\ requests[k].counter = InitialCounter
               /\ promises[k].state = "rejected"
                    => promises[k].kind \notin
                         {"no-redirect", "max-redirect", "invalid-redirect"})
  /\ [][\A k \in Hops :
          (Responds(k) /\ requests[k].redirect = "manual")
          => \A res \in WithStatus(RedirectStatuses) :
               OnResponse(k, res)
                 => /\ ~Followed
                    /\ requests' = requests
                    /\ TransportCalls' = TransportCalls
                    /\ \E r \in Delivered(k)' :
                         /\ r.status = res.statusCode
                         /\ HHas(r.headers, "location")
                              = HHas(res.headers, "location")
                         /\ HHas(res.headers, "location")
                              => HGet(r.headers, "location")
                                   = resolve_url(RequestUrl(requests[k]),
                                       HGet(res.headers, "location"))]_vars

\* C10 witness: with follow = 0 and mode manual the fetch resolved with a 302
\* whose relative Location was made absolute.
C10_Witness ==
  /\ requests[1].type = "Request"
  /\ requests[1].redirect = "manual"
  /\ requests[1].follow = 0
  /\ promises[1].state = "fulfilled"
  /\ promises[1].response.status = 302
  /\ HGet(promises[1].response.headers, "location") = "http://a/r"

\* C11 as stated: every Request that exists has counter <= follow, for all
\* values of `counter` and `follow` the caller passes.
C11_CounterNeverExceedsFollow ==
  \A k \in Hops :
    requests[k].type = "Request" => requests[k].counter <= requests[k].follow

\* C11 as amended: when the counter the caller passes does not exceed
\* `follow`, every Request that exists has counter <= follow; and every
\* followed redirect raises the counter by exactly 1, in the redirected
\* Request and in the Request of the next hop.
C11_CounterBoundedFromBoundedStart ==
  /\ []((requests[1].type = "Request"
         /\ InitialCounter <= requests[1].follow)
        => \A k \in Hops :
             requests[k].type = "Request"
               => requests[k].counter <= requests[k].follow)
  /\ [][\A k \in Hops :
          (Followed /\ Responds(k))
          => /\ requests'[k].counter = requests[k].counter + 1
             /\ NextRequest.type = "Request"
                  => /\ NextRequest.counter = requests[k].counter + 1
                     /\ NextRequest.follow = requests[k].follow]_vars

\* C11 witness: started with counter 1 and follow 2, one redirect was
\* followed and the second hop has counter 2.
C11_Witness ==
  /\ InitialCounter = 1
  /\ Last = 2
  /\ requests[2].type = "Request"
  /\ requests[2].follow = 2
  /\ requests[2].counter = 2

\* C12: request.clone() returns a Request with the url, method, redirect
\* mode, follow, compress, counter, agent, timeout and size of the original
\* and with the same header entries, for every Request (also one whose
\* counter is above 0), and a later change of the clone's headers leaves
\* the original's headers as they were.
C12_ClonePreservesFields ==
  \A i \in DOMAIN clones :
    LET c == clones[i].request
        o == clones[i].original
    IN /\ c.type = "Request"
       /\ RequestUrl(c) = RequestUrl(o)
       /\ c.method = o.method
       /\ c.redirect = o.redirect
       /\ c.follow = o.follow
       /\ c.compress = o.compress
       /\ c.counter = o.counter
       /\ c.agent = o.agent
       /\ c.timeout = o.timeout
       /\ c.size = o.size
       /\ HDelete(c.headers, "x-clone") = o.headers
       /\ requests[clones[i].of].headers = o.headers

\* C13: a response with a redirect status in a mode other than manual has
\* exactly one outcome, chosen in this order: mode error gives no-redirect
\* (whatever counter, follow and Location are); else counter >= follow gives
\* max-redirect (with or without a Location); else a missing Location gives
\* invalid-redirect; else the redirect is followed.  The three errors leave
\* the Request as it is (counter included) and add no transport call.
C13_RedirectErrorPriority ==
  [][\A k \in Hops :
       (/\ Responds(k)
        /\ requests[k].redirect # "manual"
        /\ \A r \in Delivered(k)' : r.status \in RedirectStatuses)
       => LET request == requests[k]
              failed(kind) == /\ promises'[k] = Rejected(kind)
                              /\ ~Followed
                              /\ requests' = requests
                              /\ TransportCalls' = TransportCalls
          IN \A res \in WithStatus(RedirectStatuses) :
               \/ IF request.redirect = "error"
                    THEN failed("no-redirect")
                  ELSE IF request.counter >= request.follow
                    THEN failed("max-redirect")
                  ELSE IF ~HHas(res.headers, "location")
                    THEN failed("invalid-redirect")
                  ELSE /\ Followed
                       /\ promises'[k] = Locked
                       /\ requests'[k].counter = request.counter + 1
               \/ ~OnResponse(k, res)]_vars

\* C13 witness: a fetch in mode error whose counter had reached `follow`
\* got a redirect status and failed with no-redirect, not max-redirect.
C13_Witness ==
  /\ requests[1].type = "Request"
  /\ requests[1].redirect = "error"
  /\ requests[1].counter >= requests[1].follow
  /\ promises[1] = Rejected("no-redirect")
  /\ reqs[1] = "response"

\* the response listener of hop k took its response for a terminal one (it
\* neither followed it nor failed with a redirect error), and the transport
\* has not failed since
TerminalHandled(k) ==
  reqs[k] = "response" /\ promises[k].state \in {"pending", "fulfilled"}

\* C14: for every terminal response the fetch resolves with one Response,
\* whatever the Content-Encoding and the body: the promise of a hop whose
\* terminal response was handled is fulfilled, unless the first data chunk
\* of the body is still to come; once the body has ended, with or without
\* a data chunk, the promise is fulfilled.
C14_TerminalResponseResolves ==
  \A k \in Hops :
    TerminalHandled(k)
      => \/ promises[k].state = "fulfilled"
         \/ sniffs[k].state = "waiting"

\* the transport calls that await their response
Awaiting == {k \in Hops : reqs[k] \in {"issued", "socket"}}

\* C15: the hops of a fetch are sequential: at most one transport call
\* awaits its response; every hop but the last has had its response
\* handled and its promise follows the next hop; a step starts at most one
\* hop, and only the response listener of the last hop starts one.
C15_HopsAreSequential ==
  /\ [](/\ Cardinality(Awaiting) <= 1
        /\ \A k \in Hops :
             k < Last => /\ reqs[k] \in {"response", "failed"}
                         /\ promises[k].state = "locked")
  /\ [][/\ Len(requests') <= Len(requests) + 1
        /\ Followed => Responds(Last)]_vars

\* C15 witness: the third transport call of a fetch awaits its response
\* after the responses of the first two were handled.
C15_Witness ==
  /\ Last = 3
  /\ reqs[1] = "response"
  /\ reqs[2] = "response"
  /\ reqs[3] = "socket"
  /\ Awaiting = {3}

\* C16: the timer of a hop is armed only by the socket event of a Request
\* with timeout > 0; while it is armed the call awaits its response and
\* neither the error listener nor the response listener has run; it fires
\* only then, aborting the call and rejecting with request-timeout; once
\* the error or the response event of the hop was handled its timer is not
\* armed and never changes again.
C16_TimerOnlyWhileAwaiting ==
  /\ [](\A k \in Hops :
          timers[k] = "armed"
            => /\ requests[k].timeout > 0
               /\ reqs[k] = "socket"
               /\ promises[k].state = "pending")
  /\ [][\A k \in Hops :
          /\ (timers'[k] = "armed" /\ timers[k] # "armed")
               => /\ reqs[k] = "issued"
                  /\ reqs'[k] = "socket"
                  /\ requests[k].timeout > 0
          /\ (timers'[k] = "fired" /\ timers[k] # "fired")
               => /\ reqs[k] = "socket"
                  /\ reqs'[k] = "aborted"
                  /\ promises'[k] = Rejected("request-timeout")
          /\ reqs[k] \in {"response", "failed"}
               => /\ timers[k] # "armed"
                  /\ timers'[k] = timers[k]]_vars

\* C16 witness: the transport failed while the timer of the hop was armed:
\* the timer was cleared and the fetch failed with system.
C16_Witness ==
  \E k \in Hops :
    /\ requests[k].type = "Request"
    /\ requests[k].timeout > 0
    /\ timers[k] = "cleared"
    /\ reqs[k] = "failed"
    /\ promises[k] = Rejected("system")

\* C17: the Request of the hop a followed redirect starts has the follow,
\* compress, agent, timeout, size and redirect mode of the redirected
\* Request; its headers are those of the redirected Request, less
\* Content-Length after a 303 or a 301/302 of a POST; and in every other
\* case its method and body are those of the redirected Request too.
C17_RedirectCarriesFields ==
  [][\A k \in Hops :
       (/\ Followed
        /\ Responds(k)
        /\ NextRequest.type = "Request")
       => /\ NextRequest.follow = requests[k].follow
          /\ NextRequest.compress = requests[k].compress
          /\ NextRequest.agent = requests[k].agent
          /\ NextRequest.timeout = requests[k].timeout
          /\ NextRequest.size = requests[k].size
          /\ NextRequest.redirect = requests[k].redirect
          /\ \A res \in WithLocation(RedirectStatuses) :
               \/ IF \/ res.statusCode = 303
                     \/ res.statusCode \in {301, 302}
                        /\ requests[k].method = POST
                    THEN NextRequest.headers =
                           HDelete(requests[k].headers, "content-length")
                    ELSE /\ NextRequest.headers = requests[k].headers
                         /\ NextRequest.method = requests[k].method
                         /\ NextRequest.body = requests[k].body
               \/ ~OnResponse(k, res)]_vars

\* C18: after a followed 303, or a followed 301 or 302 of a POST, the
\* options getNodeRequestOptions builds for the next hop have method GET and
\* no Content-Length header, whether the redirected Request had one among
\* its headers (from the caller) or not.
C18_DowngradeDropsContentLength ==
  [][\A k \in Hops :
       (/\ Followed
        /\ Responds(k)
        /\ NextRequest.type = "Request"
        /\ getNodeRequestOptions(NextRequest).type = "options")
       => \A res \in WithLocation({301, 302, 303}) :
            \/ (res.statusCode = 303 \/ requests[k].method = POST)
                 => /\ getNodeRequestOptions(NextRequest).method = GET
                    /\ ~HHas(getNodeRequestOptions(NextRequest).headers,
                             "content-length")
            \/ ~OnResponse(k, res)]_vars

\* C18 witness: the caller's options had a Content-Length header and a
\* body, the POST was redirected, and the options of the second hop are
\* those of a GET without Content-Length.
C18_Witness ==
  /\ Last >= 2
  /\ Defined(caller.opts, "headers")
  /\ HGet(caller.opts.headers, "content-length") = "2"
  /\ requests[2].type = "Request"
  /\ getNodeRequestOptions(requests[2]).type = "options"
  /\ getNodeRequestOptions(requests[2]).method = GET
  /\ ~HHas(getNodeRequestOptions(requests[2]).headers, "content-length")
  /\ HHas(getNodeRequestOptions(requests[2]).headers, "x-token")

CallerUrlIsHttp ==
  (IF caller.url.type = "Request" THEN caller.url.parsedURL
   ELSE parse_url(caller.url.href)).protocol \in {"http:", "https:"}

\* C20: a fetch of an http(s) URL resolves only with a response of a
\* transport call: a hop started by a redirect whose URL is not http(s)
\* fails with the protocol validation error (invalid-input) without a
\* transport call, no hop reads a local file, and no hop resolves with the
\* decoded content of a data: URL.
C20_RedirectsStayOnTheNetwork ==
  CallerUrlIsHttp
    => /\ \A k \in Hops :
            /\ reqs[k] \notin {"reading", "read"}
            /\ (k > 1 /\ parse_url(urls[k].href).protocol
                            \notin {"http:", "https:"})
                 => /\ reqs[k] = "none"
                    /\ promises[k] = Rejected("invalid-input")
       /\ Outcome.state = "fulfilled" => Outcome.response.body = "res"

====
